---- MODULE Spec2Model ----
(***************************************************************************)
(* Model of lndc/listener.go: the lndc Listener (accept loop, handshake    *)
(* tasks, result channel, Accept and Close).                               *)
(*                                                                         *)
(* Go channel operations are modelled at the granularity of the runtime:  *)
(* a select first polls its cases under the channel locks; when one or     *)
(* more cases are ready one of them is chosen, otherwise the goroutine     *)
(* parks on all of its channels and is completed by exactly one later      *)
(* event (a counterpart arriving on the rendezvous channel, a token being  *)
(* sent, or close(quit), which dequeues every waiter of quit).             *)
(***************************************************************************)
EXTENDS Naturals, Sequences, FiniteSets

\* ---- bounds ----
\* capacity of handshakeSema (the source value is 1000, scaled down)
defaultHandshakes == 2
\* raw connections the peers open over the run
MaxConns == 2
\* Accept calls over the run (each from a goroutine of its own)
NumCallers == 2
\* Close calls over the run (each from a goroutine of its own)
MaxCloseCalls == 2

Tasks == 1..MaxConns
Callers == 1..NumCallers
Closers == 1..MaxCloseCalls
\* producer id of the accept loop on the result channel
LoopId == 0
\* the sender of a call that received nothing from l.conns
NoSender == MaxConns + 1

VARIABLES
    sema,       \* tokens buffered in handshakeSema
    quit,       \* TRUE once l.quit is closed
    panicked,   \* TRUE once a goroutine panicked (the process is dead)
    fired,      \* number of close(l.quit) executions, the panicking one included
    tcpClosed,  \* TRUE once the raw listener is closed
    lpc,        \* accept loop position
    lerr,       \* err of the current iteration of the accept loop
    nAccepted,  \* raw connections accepted so far
    hs,         \* handshake tasks: [pc, ev, err]
    sendq,      \* senders parked on l.conns: <<[who, val, late]>>
    recvq,      \* Accept calls parked on l.conns
    acc,        \* Accept calls: [pc, sel, val, from, late]; from is the
                \* sender whose value the call received; for a call that
                \* was parked when the value was offered, late is the tasks
                \* that had not reached their offer then (kept until the
                \* call returns)
    retLog,     \* Accept returns in order: <<[caller, res]>>
    atFire,     \* Accept calls that were parked when quit was closed
    closer,     \* Close calls: [pc, after] of each calling goroutine; after is
                \* the number of Close calls that had returned at its start
    closeLog    \* Close returns in order: <<[err, after]>>

vars == <<sema, quit, panicked, fired, tcpClosed, lpc, lerr, nAccepted,
          hs, sendq, recvq, acc, retLog, atFire, closer, closeLog>>

loopVars == <<lpc, lerr, nAccepted>>
closeVars == <<closer, closeLog, tcpClosed, fired>>
accVars == <<acc, retLog>>

\* ---- values ----
NilErr == "nil"
NilPtr == 0
ErrClosed == "lndc connection closed"
ErrNetClosing == "use of closed network connection"

\* maybeConn{conn: conn} and maybeConn{err: err}: unset fields are zero
MaybeConnOk(conn) == [conn |-> conn, err |-> NilErr]
MaybeConnErr(err) == [conn |-> NilPtr, err |-> err]
ZeroMaybeConn == [conn |-> NilPtr, err |-> NilErr]

\* a net.Conn interface value: dynamic type and pointer
NilIface == [type |-> "nil", ptr |-> NilPtr]
\* conversion of a *Conn to net.Conn at "return result.conn, result.err":
\* the interface carries the type *Conn even when the pointer is nil
ToNetConn(p) == [type |-> "*Conn", ptr |-> p]
IsNilIface(i) == i.type = "nil"

IdleTask == [pc |-> "none", ev |-> <<>>, err |-> NilErr]
IdleCloser == [pc |-> "idle", after |-> 0]
IdleAccept ==
    [pc |-> "idle", sel |-> "none", val |-> ZeroMaybeConn, from |-> NoSender,
     late |-> {}]

Init ==
    /\ sema = defaultHandshakes
    /\ quit = FALSE
    /\ panicked = FALSE
    /\ fired = 0
    /\ tcpClosed = FALSE
    /\ lpc = "select"
    /\ lerr = NilErr
    /\ nAccepted = 0
    /\ hs = [t \in Tasks |-> IdleTask]
    /\ sendq = <<>>
    /\ recvq = <<>>
    /\ acc = [a \in Callers |-> IdleAccept]
    /\ retLog = <<>>
    /\ atFire = {}
    /\ closer = [c \in Closers |-> IdleCloser]
    /\ closeLog = <<>>

\* ---- helpers ----
\* the tasks that have not reached acceptConn / rejectConn: a sender
\* records them with its offer
NotYetDelivering ==
    {u \in Tasks : hs[u].pc \in {"none", "precheck", "actOne", "actThree"}}

SeqToSet(s) == {s[i] : i \in 1..Len(s)}
Count(s, e) == Cardinality({i \in 1..Len(s) : s[i] = e})

\* the senders parked on l.conns
Parked(q) == {q[i].who : i \in 1..Len(q)}

\* a sender leaves its select: the loop goes on to the token release of
\* line 85, a task to its deferred release of line 97
ResumeLoop(who, pc) ==
    IF pc = "rejectParked" /\ LoopId \in who THEN "release" ELSE pc
ResumeLoopErr(who, pc, e) ==
    IF pc = "rejectParked" /\ LoopId \in who THEN NilErr ELSE e
ResumeTasks(who, h) ==
    [t \in Tasks |-> IF t \in who /\ h[t].pc = "parked"
                     THEN [h[t] EXCEPT !.pc = "release", !.err = NilErr]
                     ELSE h[t]]

\* mutant of LoopSelectToken: the loop takes the next token only when no
\* handshake is in progress
LoopSelectTokenSerial ==
    /\ ~panicked
    /\ lpc = "select"
    /\ sema > 0
    /\ \A t \in Tasks : hs[t].pc \in {"none", "done"}
    /\ sema' = sema - 1
    /\ lpc' = "accept"
    /\ UNCHANGED <<quit, panicked, lerr, nAccepted, hs, sendq,
                   recvq, accVars, atFire, closeVars>>

\* ---- the accept loop: Listener.listen ----
\* select, case <-l.handshakeSema
LoopSelectToken ==
    /\ ~panicked
    /\ lpc = "select"
    /\ sema > 0
    /\ sema' = sema - 1
    /\ lpc' = "accept"
    /\ UNCHANGED <<quit, panicked, lerr, nAccepted, hs, sendq,
                   recvq, accVars, atFire, closeVars>>

\* select, case <-l.quit: return
LoopSelectQuit ==
    /\ ~panicked
    /\ lpc = "select"
    /\ quit
    /\ lpc' = "done"
    /\ UNCHANGED <<sema, quit, panicked, lerr, nAccepted, hs,
                   sendq, recvq, accVars, atFire, closeVars>>

\* select with no case ready: the loop parks on handshakeSema and quit
LoopSelectPark ==
    /\ ~panicked
    /\ lpc = "select"
    /\ sema = 0
    /\ ~quit
    /\ lpc' = "parked"
    /\ UNCHANGED <<sema, quit, panicked, lerr, nAccepted, hs,
                   sendq, recvq, accVars, atFire, closeVars>>

\* l.tcp.Accept() returns a connection; go l.doHandshake(conn)
LoopAcceptOk ==
    /\ ~panicked
    /\ lpc = "accept"
    /\ ~tcpClosed
    /\ nAccepted < MaxConns
    /\ nAccepted' = nAccepted + 1
    /\ hs' = [hs EXCEPT ![nAccepted + 1].pc = "precheck"]
    /\ lpc' = "select"
    /\ UNCHANGED <<sema, quit, panicked, lerr, sendq, recvq,
                   accVars, atFire, closeVars>>

\* l.tcp.Accept() fails while the raw listener is open
LoopAcceptTransient ==
    /\ ~panicked
    /\ lpc = "accept"
    /\ ~tcpClosed
    /\ lerr' = "errAccept"
    /\ lpc' = "reject"
    /\ UNCHANGED <<sema, quit, panicked, nAccepted, hs, sendq, recvq,
                   accVars, atFire, closeVars>>

\* l.tcp.Accept() fails because the raw listener was closed
LoopAcceptClosed ==
    /\ ~panicked
    /\ lpc = "accept"
    /\ tcpClosed
    /\ lerr' = ErrNetClosing
    /\ lpc' = "reject"
    /\ UNCHANGED <<sema, quit, panicked, nAccepted, hs, sendq,
                   recvq, accVars, atFire, closeVars>>

\* l.rejectConn(err), case l.conns <- maybeConn{err: err}: an Accept call
\* is parked on conns and takes the value
LoopRejectSend ==
    /\ ~panicked
    /\ lpc = "reject"
    /\ recvq # <<>>
    /\ acc' = [acc EXCEPT ![Head(recvq)] =
                 [pc |-> "woken", sel |-> "conns", val |-> MaybeConnErr(lerr),
                  from |-> LoopId, late |-> NotYetDelivering]]
    /\ recvq' = Tail(recvq)
    /\ lpc' = "release"
    /\ lerr' = NilErr
    /\ UNCHANGED <<sema, quit, panicked, nAccepted, hs, sendq,
                   retLog, atFire, closeVars>>

\* l.rejectConn(err), case <-l.quit
LoopRejectQuit ==
    /\ ~panicked
    /\ lpc = "reject"
    /\ quit
    /\ lpc' = "release"
    /\ lerr' = NilErr
    /\ UNCHANGED <<sema, quit, panicked, nAccepted, hs, sendq,
                   recvq, accVars, atFire, closeVars>>

\* l.rejectConn(err) with no case ready: the loop parks on conns and quit
LoopRejectPark ==
    /\ ~panicked
    /\ lpc = "reject"
    /\ recvq = <<>>
    /\ ~quit
    /\ sendq' = Append(sendq, [who |-> LoopId, val |-> MaybeConnErr(lerr),
                                late |-> NotYetDelivering])
    /\ lpc' = "rejectParked"
    /\ UNCHANGED <<sema, quit, panicked, lerr, nAccepted, hs,
                   recvq, accVars, atFire, closeVars>>

\* mutant of LoopRelease: the loop returns after a failed raw accept
LoopReleaseStop ==
    /\ ~panicked
    /\ lpc = "release"
    /\ sema < defaultHandshakes
    /\ sema' = sema + 1
    /\ lpc' = "done"
    /\ UNCHANGED <<quit, panicked, lerr, nAccepted, hs, sendq,
                   recvq, accVars, atFire, closeVars>>

\* l.handshakeSema <- struct{}{} after a failed raw accept
LoopRelease ==
    /\ ~panicked
    /\ lpc = "release"
    /\ sema < defaultHandshakes
    /\ sema' = sema + 1
    /\ lpc' = "select"
    /\ UNCHANGED <<quit, panicked, lerr, nAccepted, hs, sendq,
                   recvq, accVars, atFire, closeVars>>

\* ---- a handshake task: Listener.doHandshake ----
\* Each task logs what it did in hs[t].ev:
\*   "machine"  NewNoiseMachine            "arm"    SetReadDeadline(now+timeout)
\*   "readOne"  io.ReadFull(actOne) ok     "recvOne"   RecvActOne ok
\*   "genTwo"   GenActTwo ok               "writeTwo"  conn.Write(actTwo) ok
\*   "readThree" io.ReadFull(actThree) ok  "recvThree" RecvActThree ok
\*   "clear"    SetReadDeadline(zero)      "close"  lndcConn.conn.Close()
\*   "offer"    entering the select of acceptConn / rejectConn
\*   "abort1" / "abort8"  return on <-l.quit at line 101 / line 145
\* A task touches the listener's shared state only in its two selects on
\* quit, in acceptConn / rejectConn and in the deferred release; the
\* statements between two such points (reads and writes on its own raw
\* connection, calls on its own noise machine) are taken in one step, at
\* the moment the last of them returns.
notHs == <<sema, quit, panicked, loopVars, sendq, recvq, accVars, atFire,
           closeVars>>

\* the calls of lines 118-141 and of lines 157-167, with the error each
\* returns when it fails
ActOneCalls == <<"readOne", "recvOne", "genTwo", "writeTwo">>
ActOneErrs == <<"errTransport", "errProtocol", "errProtocol", "errTransport">>
ActThreeCalls == <<"readThree", "recvThree">>
ActThreeErrs == <<"errTransport", "errProtocol">>

\* mutant of HsFail: an error exit closes the connection and returns
\* without calling rejectConn
HsFailSilent(h, calls, errs, k) ==
    [pc |-> "release", ev |-> h.ev \o SubSeq(calls, 1, k - 1) \o <<"close">>,
     err |-> NilErr]

\* an error exit after k-1 successful calls:
\* lndcConn.conn.Close(); l.rejectConn(err); return
HsFail(h, calls, errs, k) ==
    [pc |-> "reject", ev |-> h.ev \o SubSeq(calls, 1, k - 1) \o <<"close">>,
     err |-> errs[k]]
HsAdvance(h, events, pc) == [h EXCEPT !.pc = pc, !.ev = h.ev \o events]

\* mutant of HsPrecheck: the abort path returns without the deferred release
HsPrecheckNoRelease(t) ==
    /\ ~panicked
    /\ hs[t].pc = "precheck"
    /\ hs' = [hs EXCEPT ![t] =
                IF quit THEN HsAdvance(hs[t], <<"abort1">>, "done")
                ELSE HsAdvance(hs[t], <<"machine", "arm">>, "actOne")]
    /\ UNCHANGED notHs

\* mutant of HsPrecheck: the Conn is built and the first deadline armed
\* before the select on quit
HsPrecheckLate(t) ==
    /\ ~panicked
    /\ hs[t].pc = "precheck"
    /\ hs' = [hs EXCEPT ![t] =
                IF quit
                THEN HsAdvance(hs[t], <<"machine", "arm", "abort1">>, "release")
                ELSE HsAdvance(hs[t], <<"machine", "arm">>, "actOne")]
    /\ UNCHANGED notHs

\* lines 99-113: the pre-check select, then the Conn and the first deadline
HsPrecheck(t) ==
    /\ ~panicked
    /\ hs[t].pc = "precheck"
    /\ hs' = [hs EXCEPT ![t] =
                IF quit THEN HsAdvance(hs[t], <<"abort1">>, "release")
                ELSE HsAdvance(hs[t], <<"machine", "arm">>, "actOne")]
    /\ UNCHANGED notHs

\* mutant of HsActOne: an error exit calls rejectConn without closing the
\* raw connection
HsActOneNoClose(t) ==
    /\ ~panicked
    /\ hs[t].pc = "actOne"
    /\ \/ \E k \in 1..Len(ActOneCalls) :
            hs' = [hs EXCEPT ![t] =
                     [pc |-> "reject",
                      ev |-> hs[t].ev \o SubSeq(ActOneCalls, 1, k - 1),
                      err |-> ActOneErrs[k]]]
       \/ hs' = [hs EXCEPT ![t] =
                   IF quit
                   THEN HsAdvance(hs[t], ActOneCalls \o <<"abort8">>, "release")
                   ELSE HsAdvance(hs[t], ActOneCalls \o <<"arm">>, "actThree")]
    /\ UNCHANGED notHs

\* lines 118-152: read Act One, RecvActOne, GenActTwo, write Act Two, then
\* the second select on quit and the second deadline
HsActOne(t) ==
    /\ ~panicked
    /\ hs[t].pc = "actOne"
    /\ \/ \E k \in 1..Len(ActOneCalls) :
            hs' = [hs EXCEPT ![t] = HsFail(hs[t], ActOneCalls, ActOneErrs, k)]
       \/ hs' = [hs EXCEPT ![t] =
                   IF quit
                   THEN HsAdvance(hs[t], ActOneCalls \o <<"abort8">>, "release")
                   ELSE HsAdvance(hs[t], ActOneCalls \o <<"arm">>, "actThree")]
    /\ UNCHANGED notHs

\* mutant of HsActThree: the error of RecvActThree is not checked
HsActThreeUnchecked(t) ==
    /\ ~panicked
    /\ hs[t].pc = "actThree"
    /\ \/ hs' = [hs EXCEPT ![t] =
                   HsFail(hs[t], ActThreeCalls, ActThreeErrs, 1)]
       \/ \E n \in 1..Len(ActThreeCalls) :
            hs' = [hs EXCEPT ![t] =
                     HsAdvance(hs[t], SubSeq(ActThreeCalls, 1, n) \o <<"clear">>,
                               "accept")]
    /\ UNCHANGED notHs

\* mutant of HsActThree: acceptConn is called with the second deadline
\* still armed
HsActThreeNoClear(t) ==
    /\ ~panicked
    /\ hs[t].pc = "actThree"
    /\ \/ \E k \in 1..Len(ActThreeCalls) :
            hs' = [hs EXCEPT ![t] =
                     HsFail(hs[t], ActThreeCalls, ActThreeErrs, k)]
       \/ hs' = [hs EXCEPT ![t] = HsAdvance(hs[t], ActThreeCalls, "accept")]
    /\ UNCHANGED notHs

\* lines 157-173: read Act Three, RecvActThree, clear the deadline and call
\* acceptConn
HsActThree(t) ==
    /\ ~panicked
    /\ hs[t].pc = "actThree"
    /\ \/ \E k \in 1..Len(ActThreeCalls) :
            hs' = [hs EXCEPT ![t] =
                     HsFail(hs[t], ActThreeCalls, ActThreeErrs, k)]
       \/ hs' = [hs EXCEPT ![t] =
                   HsAdvance(hs[t], ActThreeCalls \o <<"clear">>, "accept")]
    /\ UNCHANGED notHs

\* the value a task offers: acceptConn(lndcConn) or rejectConn(err)
HsOutcome(t) ==
    IF hs[t].pc = "accept" THEN MaybeConnOk(t) ELSE MaybeConnErr(hs[t].err)

\* acceptConn / rejectConn, case l.conns <- maybeConn{...}: an Accept call
\* is parked on conns and takes the value
HsOfferSend(t) ==
    /\ ~panicked
    /\ hs[t].pc \in {"accept", "reject"}
    /\ recvq # <<>>
    /\ acc' = [acc EXCEPT ![Head(recvq)] =
                 [pc |-> "woken", sel |-> "conns", val |-> HsOutcome(t),
                  from |-> t, late |-> NotYetDelivering]]
    /\ recvq' = Tail(recvq)
    /\ hs' = [hs EXCEPT ![t] =
                [pc |-> "release", ev |-> Append(hs[t].ev, "offer"),
                 err |-> NilErr]]
    /\ UNCHANGED <<sema, quit, panicked, loopVars, sendq, retLog, atFire,
                   closeVars>>

\* acceptConn / rejectConn, case <-l.quit
HsOfferQuit(t) ==
    /\ ~panicked
    /\ hs[t].pc \in {"accept", "reject"}
    /\ quit
    /\ hs' = [hs EXCEPT ![t] =
                [pc |-> "release", ev |-> Append(hs[t].ev, "offer"),
                 err |-> NilErr]]
    /\ UNCHANGED notHs

\* acceptConn / rejectConn with no case ready: the task parks
HsOfferPark(t) ==
    /\ ~panicked
    /\ hs[t].pc \in {"accept", "reject"}
    /\ recvq = <<>>
    /\ ~quit
    /\ sendq' = Append(sendq, [who |-> t, val |-> HsOutcome(t),
                                late |-> NotYetDelivering])
    /\ hs' = [hs EXCEPT ![t] = HsAdvance(hs[t], <<"offer">>, "parked")]
    /\ UNCHANGED <<sema, quit, panicked, loopVars, recvq, accVars, atFire,
                   closeVars>>

\* a task that has returned: the log of a task that handed a connection to
\* acceptConn stays with that connection, every other log ends here
HsReturned(h) ==
    [pc |-> "done", ev |-> IF "clear" \in SeqToSet(h.ev) THEN h.ev ELSE <<>>,
     err |-> NilErr]

\* line 97, the deferred l.handshakeSema <- struct{}{}: the token goes to
\* the accept loop when it is parked on handshakeSema, else into the buffer
HsRelease(t) ==
    /\ ~panicked
    /\ hs[t].pc = "release"
    /\ \/ /\ lpc = "parked"
          /\ lpc' = "accept"
          /\ sema' = sema
       \/ /\ lpc # "parked"
          /\ sema < defaultHandshakes
          /\ sema' = sema + 1
          /\ lpc' = lpc
    /\ hs' = [hs EXCEPT ![t] = HsReturned(hs[t])]
    /\ UNCHANGED <<quit, panicked, lerr, nAccepted, sendq, recvq,
                   accVars, atFire, closeVars>>

\* ---- Listener.Accept ----
\* Accept calls are started in the order of their callers' numbers
AcceptMayStart(a) ==
    /\ acc[a].pc = "idle"
    /\ \A b \in Callers : b < a => acc[b].pc # "idle"

\* mutant of AcceptRecv: the call copies the value of the first parked
\* sender and leaves the sender parked
AcceptRecvPeek(a) ==
    /\ ~panicked
    /\ AcceptMayStart(a)
    /\ sendq # <<>>
    /\ acc' = [acc EXCEPT ![a] =
                 [pc |-> "woken", sel |-> "conns", val |-> Head(sendq).val,
                  from |-> Head(sendq).who, late |-> {}]]
    /\ UNCHANGED <<sema, quit, panicked, loopVars, hs, sendq, recvq,
                   retLog, atFire, closeVars>>

\* mutant of AcceptRecv: the call takes the value of the sender that parked
\* last
AcceptRecvLast(a) ==
    /\ ~panicked
    /\ AcceptMayStart(a)
    /\ sendq # <<>>
    /\ acc' = [acc EXCEPT ![a] =
                 [pc |-> "woken", sel |-> "conns",
                  val |-> sendq[Len(sendq)].val,
                  from |-> sendq[Len(sendq)].who, late |-> {}]]
    /\ sendq' = SubSeq(sendq, 1, Len(sendq) - 1)
    /\ lpc' = ResumeLoop({sendq[Len(sendq)].who}, lpc)
    /\ lerr' = ResumeLoopErr({sendq[Len(sendq)].who}, lpc, lerr)
    /\ hs' = ResumeTasks({sendq[Len(sendq)].who}, hs)
    /\ UNCHANGED <<sema, quit, panicked, nAccepted, recvq,
                   retLog, atFire, closeVars>>

\* the select of Accept, case result := <-l.conns: a sender is parked
AcceptRecv(a) ==
    /\ ~panicked
    /\ AcceptMayStart(a)
    /\ sendq # <<>>
    /\ acc' = [acc EXCEPT ![a] =
                 [pc |-> "woken", sel |-> "conns", val |-> Head(sendq).val,
                  from |-> Head(sendq).who, late |-> {}]]
    /\ sendq' = Tail(sendq)
    /\ lpc' = ResumeLoop({Head(sendq).who}, lpc)
    /\ lerr' = ResumeLoopErr({Head(sendq).who}, lpc, lerr)
    /\ hs' = ResumeTasks({Head(sendq).who}, hs)
    /\ UNCHANGED <<sema, quit, panicked, nAccepted, recvq,
                   retLog, atFire, closeVars>>

\* the select of Accept, case <-l.quit
AcceptQuit(a) ==
    /\ ~panicked
    /\ AcceptMayStart(a)
    /\ quit
    /\ acc' = [acc EXCEPT ![a].pc = "woken", ![a].sel = "quit"]
    /\ UNCHANGED <<sema, quit, panicked, loopVars, hs, sendq, recvq, retLog,
                   atFire, closeVars>>

\* the select of Accept with no case ready: the call parks
AcceptPark(a) ==
    /\ ~panicked
    /\ AcceptMayStart(a)
    /\ sendq = <<>>
    /\ ~quit
    /\ acc' = [acc EXCEPT ![a].pc = "parked"]
    /\ recvq' = Append(recvq, a)
    /\ UNCHANGED <<sema, quit, panicked, loopVars, hs, sendq, retLog, atFire,
                   closeVars>>

\* what Accept returns for the case its select took
AcceptResult(sel, val) ==
    IF sel = "conns" THEN [conn |-> ToNetConn(val.conn), err |-> val.err]
    ELSE [conn |-> NilIface, err |-> ErrClosed]

\* return result.conn, result.err / return nil, errors.New(...)
AcceptReturn(a) ==
    /\ ~panicked
    /\ acc[a].pc = "woken"
    /\ acc' = [acc EXCEPT ![a] = [pc |-> "done", sel |-> "none",
                                  val |-> ZeroMaybeConn,
                                  from |-> acc[a].from, late |-> {}]]
    /\ retLog' = Append(retLog, [caller |-> a,
                                  res |-> AcceptResult(acc[a].sel, acc[a].val)])
    /\ UNCHANGED <<sema, quit, panicked, loopVars, hs, sendq, recvq, atFire,
                   closeVars>>

\* ---- Listener.Close ----
\* net.TCPListener.Close: nil the first time, an error once already closed
TcpClose(closed) == IF closed THEN ErrNetClosing ELSE NilErr

\* mutant of WakeAccepts: close(l.quit) leaves the parked Accept calls
\* waiting on l.conns
WakeAcceptsNone(q, ac) == ac

\* every goroutine parked in a select is a waiter of quit: close(l.quit)
\* dequeues them all, and each resumes in its <-l.quit case
WakeAccepts(q, ac) ==
    [a \in Callers |-> IF a \in SeqToSet(q) /\ ac[a].pc = "parked"
                       THEN [ac[a] EXCEPT !.pc = "woken", !.sel = "quit"]
                       ELSE ac[a]]

\* Close calls are started in the order of their numbers
CloseMayStart(c) ==
    /\ closer[c].pc = "idle"
    /\ \A d \in Closers : d < c => closer[d].pc # "idle"

\* the select of Close: case <-l.quit falls through to l.tcp.Close(),
\* default goes on to close(l.quit)
CloseCheck(c) ==
    /\ ~panicked
    /\ CloseMayStart(c)
    /\ closer' = [closer EXCEPT ![c] = [pc |-> IF quit THEN "tcp" ELSE "fire",
                                        after |-> Len(closeLog)]]
    /\ UNCHANGED <<sema, quit, panicked, fired, tcpClosed, loopVars, hs,
                   sendq, recvq, accVars, atFire, closeLog>>

\* close(l.quit) in the default case; closing a closed channel panics
CloseFire(c) ==
    /\ ~panicked
    /\ closer[c].pc = "fire"
    /\ fired' = fired + 1
    /\ IF quit
       THEN /\ panicked' = TRUE
            /\ UNCHANGED <<quit, lpc, lerr, hs, sendq, recvq, acc, atFire,
                           closer>>
       ELSE /\ quit' = TRUE
            /\ atFire' = SeqToSet(recvq)
            /\ acc' = WakeAccepts(recvq, acc)
            /\ recvq' = <<>>
            /\ hs' = ResumeTasks(Parked(sendq), hs)
            /\ lpc' = IF lpc = "parked" THEN "done"
                      ELSE ResumeLoop(Parked(sendq), lpc)
            /\ lerr' = ResumeLoopErr(Parked(sendq), lpc, lerr)
            /\ sendq' = <<>>
            /\ closer' = [closer EXCEPT ![c].pc = "tcp"]
            /\ UNCHANGED panicked
    /\ UNCHANGED <<sema, tcpClosed, nAccepted, retLog, closeLog>>

\* return l.tcp.Close()
CloseTcp(c) ==
    /\ ~panicked
    /\ closer[c].pc = "tcp"
    /\ closeLog' = Append(closeLog, [err |-> TcpClose(tcpClosed),
                                     after |-> closer[c].after])
    /\ tcpClosed' = TRUE
    /\ closer' = [closer EXCEPT ![c] = [pc |-> "done", after |-> 0]]
    /\ UNCHANGED <<sema, quit, panicked, fired, loopVars, hs, sendq, recvq,
                   accVars, atFire>>

\* ---- specification ----
LoopStep ==
    \/ LoopSelectToken \/ LoopSelectQuit \/ LoopSelectPark
    \/ LoopAcceptOk \/ LoopAcceptTransient \/ LoopAcceptClosed
    \/ LoopRejectSend \/ LoopRejectQuit \/ LoopRejectPark
    \/ LoopRelease

HsStep(t) ==
    \/ HsPrecheck(t) \/ HsActOne(t) \/ HsActThree(t)
    \/ HsOfferSend(t) \/ HsOfferQuit(t) \/ HsOfferPark(t)
    \/ HsRelease(t)

AcceptStep(a) ==
    AcceptRecv(a) \/ AcceptQuit(a) \/ AcceptPark(a) \/ AcceptReturn(a)

CloseStep(c) == CloseCheck(c) \/ CloseFire(c) \/ CloseTcp(c)

\* every action is guarded by ~panicked: an unrecovered panic ends the
\* process and no goroutine takes another step
Next ==
    \/ LoopStep
    \/ \E t \in Tasks : HsStep(t)
    \/ \E a \in Callers : AcceptStep(a)
    \/ \E c \in Closers : CloseStep(c)

Spec == Init /\ [][Next]_vars

\* Fairness. A goroutine that can run does run (weak fairness on the steps
\* that wait for nothing outside the process); a read or write on a raw
\* connection returns, by data, error or deadline; l.tcp.Accept() on a
\* closed listener returns; and the pseudo-random choice of a select whose
\* quit case is ready again and again takes that case sooner or later
\* (strong fairness). Nothing obliges a peer to connect, nor a caller to
\* call Accept or Close.
Fairness ==
    /\ WF_vars(LoopSelectToken \/ LoopSelectQuit \/ LoopSelectPark)
    /\ SF_vars(LoopSelectQuit)
    /\ WF_vars(LoopAcceptClosed)
    /\ WF_vars(LoopRejectSend \/ LoopRejectQuit \/ LoopRejectPark)
    /\ WF_vars(LoopRelease)
    /\ \A t \in Tasks : WF_vars(HsStep(t))
    /\ \A a \in Callers : WF_vars(AcceptReturn(a))
    /\ \A c \in Closers : WF_vars(CloseFire(c) \/ CloseTcp(c))

FairSpec == Spec /\ Fairness

\* ---- derived state ----
\* handshake tasks between their go statement and their deferred release
Active == {t \in Tasks : hs[t].pc \notin {"none", "done"}}
\* the accept loop between taking a token and handing it on or back
LoopHolds == lpc \in {"accept", "reject", "rejectParked", "release"}
InFlight == Cardinality(Active) + (IF LoopHolds THEN 1 ELSE 0)

\* the six calls of a complete handshake, in program order
HandshakeCalls == ActOneCalls \o ActThreeCalls
IsHandshakeCall(e) == e \in SeqToSet(HandshakeCalls)
CallsOf(t) == SelectSeq(hs[t].ev, IsHandshakeCall)
Offers(t) == Count(hs[t].ev, "offer")

\* an Accept return that is a success: conn != nil and err == nil
Success(r) == ~IsNilIface(r.conn) /\ r.err = NilErr
Returns == {retLog[i].res : i \in 1..Len(retLog)}
ReturnsOf(a) == SelectSeq(retLog, LAMBDA e : e.caller = a)
ClosedReturn == [conn |-> NilIface, err |-> ErrClosed]

\* the maybeConn values on their way through l.conns
Outcomes ==
    {sendq[i].val : i \in 1..Len(sendq)}
        \cup {acc[a].val : a \in {b \in Callers : acc[b].sel = "conns"}}
Exclusive(v) == (v.conn # NilPtr) # (v.err # NilErr)

\* no goroutine can take a step
Quiescent == ~ENABLED Next

\* ---- properties ----
\* C1: every success returned by Accept (non-nil connection, nil error) is
\* the connection of a task that performed, in this order and each
\* successfully, the read of Act One, RecvActOne, GenActTwo, the write of
\* Act Two, the read of Act Three and RecvActThree, and that never closed
\* the raw connection.
C1_OnlyCompletedHandshakes ==
    \A r \in Returns :
        Success(r) =>
            /\ r.conn.ptr \in Tasks
            /\ CallsOf(r.conn.ptr) = HandshakeCalls
            /\ "close" \notin SeqToSet(hs[r.conn.ptr].ev)
            /\ Offers(r.conn.ptr) = 1

\* a success has been returned while the signal is set and another task
\* failed its handshake
C1_Witness ==
    /\ \E r \in Returns : Success(r)
    /\ \E t \in Tasks : "close" \in SeqToSet(hs[t].ev)
    /\ quit

\* C2: capacity invariant. In every reachable state the tokens in flight
\* (held by the accept loop or by a handshake task that has not yet run its
\* deferred release) plus the tokens in the pool are defaultHandshakes, at
\* most defaultHandshakes tasks are active, and the accept loop is inside
\* l.tcp.Accept() only while it holds a token, so that fewer than
\* defaultHandshakes tasks are active at every raw accept.
C2_Capacity ==
    /\ sema \in 0..defaultHandshakes
    /\ InFlight + sema = defaultHandshakes
    /\ Cardinality(Active) <= defaultHandshakes
    /\ lpc = "accept" => Cardinality(Active) < defaultHandshakes

\* the loop is in a raw accept after defaultHandshakes connections were
\* accepted: a task has returned its token, here on a shutdown abort
C2_Witness ==
    /\ lpc = "accept"
    /\ nAccepted = defaultHandshakes
    /\ \E t \in Tasks : hs[t].pc = "done"
    /\ \E t \in Tasks : hs[t].pc = "release" /\ "abort8" \in SeqToSet(hs[t].ev)

\* C3: exclusivity. Every maybeConn on its way through l.conns carries
\* exactly one of {connection, error}, and every return of Accept has
\* either a non-nil connection with a nil error or a nil connection with a
\* non-nil error.
C3_Exclusive ==
    /\ \A v \in Outcomes : Exclusive(v)
    /\ \A r \in Returns :
         \/ ~IsNilIface(r.conn) /\ r.err = NilErr
         \/ IsNilIface(r.conn) /\ r.err # NilErr

\* C3, the part that holds: every maybeConn carries exactly one of
\* {connection, error}, and an Accept return has a nil error exactly when
\* the pointer inside the returned net.Conn is not nil.
C3_OutcomesExclusive ==
    /\ \A v \in Outcomes : Exclusive(v)
    /\ \A r \in Returns : (r.conn.ptr # NilPtr) # (r.err # NilErr)

\* C4: every Accept call that was blocked when close(l.quit) ran returns:
\* in a state where no goroutine can take a step, none of them is still
\* inside Accept.
C4_BlockedAcceptReturns ==
    Quiescent => \A a \in atFire : acc[a].pc = "done"

\* C4 without the double close of C7: as long as the process has not
\* panicked, a call that was blocked when close(l.quit) ran has left its
\* select through the quit case and can return
C4_WokenUnlessPanic ==
    \A a \in atFire :
        \/ acc[a].pc = "done"
        \/ acc[a].pc = "woken" /\ (panicked \/ ENABLED AcceptReturn(a))

\* C5: an Accept call that was blocked when close(l.quit) ran returns the
\* listener-closed error and nothing else: it is in its quit case until it
\* returns, and it returns exactly once, (nil, "lndc connection closed").
C5_BlockedGetClosed ==
    \A a \in atFire :
        \/ /\ acc[a].pc = "woken"
           /\ acc[a].sel = "quit"
           /\ ReturnsOf(a) = <<>>
        \/ /\ acc[a].pc = "done"
           /\ ReturnsOf(a) = <<[caller |-> a, res |-> ClosedReturn]>>

\* two blocked calls have returned the closed error, and a task that
\* reached its delivery step after the signal gave its Outcome to nobody
C5_Witness ==
    /\ Cardinality(atFire) = NumCallers
    /\ \A a \in atFire : acc[a].pc = "done"
    /\ \E t \in Tasks : hs[t].pc = "release" /\ "offer" \in SeqToSet(hs[t].ev)

\* C6: idempotent close. A Close call that starts after another Close call
\* has returned returns no error.
C6_IdempotentClose ==
    \A i \in 1..Len(closeLog) :
        closeLog[i].after >= 1 => closeLog[i].err = NilErr

\* C6, the part that holds: the raw listener goes from open to closed once,
\* in the first l.tcp.Close(), and that call returns nil
C6_FirstCloseNil ==
    /\ tcpClosed <=> closeLog # <<>>
    /\ closeLog # <<>> => closeLog[1].err = NilErr

\* C7: for any interleaving of concurrent Close calls, close(l.quit) is
\* executed at most once: two callers never both pass the check of the
\* signal, so no goroutine is at close(l.quit) once the signal is set.
C7_FiredOnce ==
    /\ fired <= 1
    /\ quit => \A c \in Closers : closer[c].pc # "fire"

\* C7, the part that holds: the signal never returns from closed to open
C7_NeverReopens == [][quit => quit']_vars

\* C8: clean shutdown. Once Close has been called and no goroutine can take
\* a step any more, every handshake task has terminated, the accept loop
\* holds no token and all defaultHandshakes tokens are back in the pool.
C8_CleanShutdown ==
    (Quiescent /\ \E c \in Closers : closer[c].pc # "idle") =>
        /\ Active = {}
        /\ ~LoopHolds
        /\ sema = defaultHandshakes

\* C8, the parts that hold: a task or a loop at a token release, and a
\* task at any other step of its own, can take it unless the process has
\* panicked (the pool is never full while a token is outstanding); and
\* when nothing can run and no panic occurred after Close, every token is
\* back in the pool.
C8_UnlessPanic ==
    /\ \A t \in Tasks :
         hs[t].pc \in {"precheck", "actOne", "actThree", "accept", "reject",
                       "release"} => (panicked \/ ENABLED HsStep(t))
    /\ lpc = "release" => (panicked \/ ENABLED LoopRelease)
    /\ (Quiescent /\ ~panicked /\ \E c \in Closers : closer[c].pc # "idle") =>
         (Active = {} /\ ~LoopHolds /\ sema = defaultHandshakes)

\* C9: no stall propagation. Whatever the handshake tasks are doing, the
\* accept loop at its select can take a token when the pool holds one, the
\* loop is parked at its select only when the pool is empty and the signal
\* is not set, the loop inside l.tcp.Accept() can accept a pending
\* connection, and a task at a step of its own can take it.
C9_NoStall ==
    /\ (~panicked /\ lpc = "select" /\ sema > 0) => ENABLED LoopSelectToken
    /\ lpc = "parked" => (sema = 0 /\ ~quit)
    /\ (~panicked /\ lpc = "accept" /\ ~tcpClosed /\ nAccepted < MaxConns)
          => ENABLED LoopAcceptOk
    /\ \A t \in Tasks :
         (~panicked /\ hs[t].pc \in {"precheck", "actOne", "actThree"})
            => ENABLED HsStep(t)

\* the second connection was accepted, completed its handshake and was
\* returned by Accept while the first task is still waiting for Act One
C9_Witness ==
    /\ hs[1].pc = "actOne"
    /\ \E r \in Returns : Success(r) /\ r.conn.ptr = 2
    /\ ~quit

\* the exit a task took, read off its log once it is at its deferred release
AbortedAt1(t) == "abort1" \in SeqToSet(hs[t].ev)
AbortedAt8(t) == "abort8" \in SeqToSet(hs[t].ev)

\* C10 as the specification states it: a task at its deferred release has
\* offered exactly one Outcome, except after the abort of step 8 (line
\* 145), where it offered none; and no task offers two.
C10_OneOutcomeExceptStep8 ==
    \A t \in Tasks :
        /\ Offers(t) <= 1
        /\ hs[t].pc = "release" =>
             Offers(t) = (IF AbortedAt8(t) THEN 0 ELSE 1)

\* C10 amended: a task at its deferred release has offered exactly one
\* Outcome, except after the pre-check abort (line 101) and the abort of
\* step 8 (line 145), where it offered none; and no task offers two.
C10_OneOutcomeExceptAborts ==
    \A t \in Tasks :
        /\ Offers(t) <= 1
        /\ hs[t].pc = "release" =>
             Offers(t) = (IF AbortedAt1(t) \/ AbortedAt8(t) THEN 0 ELSE 1)

\* one task left through the pre-check abort and one through an error exit
C10_Witness ==
    /\ \E t \in Tasks : hs[t].pc = "release" /\ AbortedAt1(t) /\ Offers(t) = 0
    /\ \E t \in Tasks : /\ hs[t].pc = "release"
                        /\ "close" \in SeqToSet(hs[t].ev)
                        /\ Offers(t) = 1

\* C4 and C8 as liveness, up to the panic of C7: under FairSpec a call
\* blocked when close(l.quit) ran returns, and after a Close call every
\* task terminates and the pool fills up for good, unless the process
\* panics
C4_ReturnsUnlessPanic ==
    \A a \in Callers : (a \in atFire) ~> (acc[a].pc = "done" \/ panicked)
C8_DrainsUnlessPanic ==
    (\E c \in Closers : closer[c].pc # "idle") ~>
        (panicked \/ [](Active = {} /\ sema = defaultHandshakes))


\* ---- the result channel ----
Producers == {LoopId} \cup Tasks

\* p is in the select of its offer (acceptConn / rejectConn)
Offering(p) ==
    IF p = LoopId THEN lpc \in {"reject", "rejectParked"}
    ELSE hs[p].pc \in {"accept", "reject", "parked"}

\* the maybeConn p is offering
Offered(p) ==
    IF p \in Parked(sendq)
    THEN (CHOOSE e \in SeqToSet(sendq) : e.who = p).val
    ELSE IF p = LoopId THEN MaybeConnErr(lerr) ELSE HsOutcome(p)

\* p leaves the select of its offer in this step
LeavesOffer(p) ==
    /\ Offering(p)
    /\ IF p = LoopId THEN lpc' = "release" ELSE hs'[p].pc = "release"

\* the Accept calls whose select takes a value from l.conns in this step
Takers == {a \in Callers : acc[a].from = NoSender /\ acc'[a].from # NoSender}

\* C11: every step hands at most one offered Outcome to at most one Accept
\* call; the call that takes a value takes exactly the value its sender was
\* offering, and that sender leaves its offer in the same step; a call that
\* holds a value returns that value and never takes a second one; and while
\* the signal stays unset a producer leaves its offer only by handing its
\* Outcome to an Accept call.
C11_ExactlyOneConsumer ==
    [][/\ Cardinality(Takers) <= 1
       /\ \A a \in Takers :
            /\ acc'[a].from \in Producers
            /\ LeavesOffer(acc'[a].from)
            /\ acc'[a].sel = "conns"
            /\ acc'[a].val = Offered(acc'[a].from)
            /\ \A p \in Producers \ {acc'[a].from} : ~LeavesOffer(p)
       /\ \A a \in Callers :
            /\ acc[a].from # NoSender => acc'[a].from = acc[a].from
            /\ (acc[a].pc = "woken" /\ acc'[a].pc = "done") =>
                 retLog' = Append(retLog,
                     [caller |-> a,
                      res |-> AcceptResult(acc[a].sel, acc[a].val)])
            /\ (acc'[a].sel = "conns") = (acc'[a].pc = "woken"
                                           /\ acc'[a].from # NoSender)
       /\ \A p \in Producers :
            (LeavesOffer(p) /\ ~quit') =>
                \E a \in Takers : acc'[a].from = p]_vars

\* two Accept calls have returned under an unset signal, one with the
\* Outcome of the accept loop and one with the Outcome of a handshake task
C11_Witness ==
    /\ ~quit
    /\ \E a, b \in Callers :
         /\ acc[a].pc = "done" /\ acc[a].from = LoopId
         /\ acc[b].pc = "done" /\ acc[b].from \in Tasks


\* ---- error exits ----
\* the position of the first event e in the log s, 0 when there is none
IndexOf(s, e) ==
    IF e \in SeqToSet(s) THEN CHOOSE i \in 1..Len(s) :
                                 s[i] = e /\ \A j \in 1..(i - 1) : s[j] # e
    ELSE 0

\* task t took an error exit: one of the six calls returned an error
Failed(t) == "close" \in SeqToSet(hs[t].ev)

\* C12: a task in which one of the six handshake calls failed closes its raw
\* connection once, after a proper prefix of the calls and before it enters
\* rejectConn; it enters rejectConn once, with the error of the failed call,
\* and still holds its token when it does; it reaches its token release only
\* with the close and then the one offer behind it.
C12_ErrorExitClosesFirst ==
    /\ \A t \in Tasks :
        /\ (hs[t].pc = "reject" \/ hs[t].err # NilErr) => Failed(t)
        /\ Failed(t) =>
             /\ hs[t].pc \in {"reject", "parked", "release"}
             /\ Count(hs[t].ev, "close") = 1
             /\ Len(CallsOf(t)) < Len(HandshakeCalls)
             /\ CallsOf(t) = SubSeq(HandshakeCalls, 1, Len(CallsOf(t)))
             /\ "clear" \notin SeqToSet(hs[t].ev)
             /\ hs[t].pc = "reject" =>
                  /\ hs[t].ev[Len(hs[t].ev)] = "close"
                  /\ Offers(t) = 0
                  /\ hs[t].err \in {"errTransport", "errProtocol"}
                  /\ HsOutcome(t) = MaybeConnErr(hs[t].err)
             /\ hs[t].pc \in {"parked", "release"} =>
                  /\ Offers(t) = 1
                  /\ IndexOf(hs[t].ev, "close") + 1
                       = IndexOf(hs[t].ev, "offer")
                  /\ hs[t].ev[Len(hs[t].ev)] = "offer"
    /\ sema + Cardinality({t \in Tasks : Failed(t)}) <= defaultHandshakes

\* a task whose read of Act Three failed has closed its connection, an
\* Accept call has taken its error, and the task is about to release
C12_Witness ==
    \E t \in Tasks :
        /\ hs[t].pc = "release"
        /\ Failed(t)
        /\ "writeTwo" \in SeqToSet(hs[t].ev)
        /\ \E a \in Callers : acc[a].from = t /\ acc[a].val.err = "errTransport"


\* ---- token release ----
\* C13: every handshake task releases its token once Close has fired the
\* signal: in a state where no goroutine can take a step and the signal is
\* set, no task is left holding a token; and a task that has offered its
\* Outcome reaches its release only after an Accept call took the Outcome
\* or the signal fired.
C13_TokenReleased ==
    /\ (Quiescent /\ quit) => Active = {}
    /\ \A t \in Tasks :
         (hs[t].pc = "release" /\ Offers(t) = 1) =>
              (quit \/ \E a \in Callers : acc[a].from = t)

\* C13, the parts that hold: a parked task holds its token and is parked
\* only while the signal is unset and nobody has taken its Outcome; a task
\* that offered is at its release only after a hand-over or the signal; the
\* pool never holds the token of a task that has not returned; and with no
\* panic, nothing left to run and the signal set, every task has returned
C13_HeldWhileDelivering ==
    /\ \A t \in Tasks :
         /\ hs[t].pc = "parked" =>
              /\ ~quit
              /\ t \in Parked(sendq)
              /\ \A a \in Callers : acc[a].from # t
         /\ (hs[t].pc = "release" /\ Offers(t) = 1) =>
              (quit \/ \E a \in Callers : acc[a].from = t)
    /\ sema + Cardinality(Active) <= defaultHandshakes
    /\ (Quiescent /\ quit /\ ~panicked) => Active = {}


\* ---- the iterations of the accept loop ----
\* the tasks the loop starts in this step: go l.doHandshake(conn)
Spawned == {t \in Tasks : hs[t].pc = "none" /\ hs'[t].pc # "none"}

\* the loop is in the iteration of a failed raw accept, lines 83-87
LoopFailing == lpc \in {"reject", "rejectParked", "release"}

\* C14: the loop has returned only in states where the signal is set, and
\* it returns only from its select at the top of an iteration. A failed raw
\* accept takes the loop into rejectConn with the error, from there (parked
\* or not) to the release of its own token and from there back to the
\* select: one offer, one token put back into the pool, no task started in
\* between. The loop leaves its select for good only by its own step under
\* a set signal, or parked there in the step that sets the signal; no step
\* of a handshake task ends it.
C14_LoopEndsOnlyOnSignal ==
    [][/\ lpc' = "done" => quit'
       /\ (lpc # "done" /\ lpc' = "done") => lpc \in {"select", "parked"}
       /\ (lpc = "accept" /\ lpc' # "accept") =>
            \/ /\ lpc' = "select"
               /\ Cardinality(Spawned) = 1
               /\ lerr' = NilErr
            \/ /\ lpc' = "reject"
               /\ lerr' # NilErr
               /\ Spawned = {}
       /\ (lpc = "reject" /\ lpc' # "reject") =>
            lpc' \in {"rejectParked", "release"}
       /\ (lpc = "rejectParked" /\ lpc' # "rejectParked") => lpc' = "release"
       /\ (lpc = "release" /\ lpc' # "release") =>
            (lpc' = "select" /\ sema' = sema + 1)
       /\ LoopFailing =>
            /\ Spawned = {}
            /\ nAccepted' = nAccepted
            /\ sema <= defaultHandshakes - 1
       /\ (lpc = "select" /\ lpc' = "done") => (quit /\ hs' = hs)
       /\ (lpc = "parked" /\ lpc' # "parked") =>
            \/ lpc' = "accept" /\ sema' = sema
            \/ lpc' = "done" /\ ~quit]_vars

\* the loop is in a raw accept again, with the signal unset, after a failed
\* raw accept and a failed handshake were both reported through Accept
C14_Witness ==
    /\ ~quit
    /\ lpc = "accept"
    /\ \E i, j \in 1..Len(retLog) :
         /\ retLog[i].res.err = "errAccept"
         /\ retLog[j].res.err \in {"errTransport", "errProtocol"}


\* ---- the accept loop after the signal ----
\* C15: once the signal is set the loop takes no token from the pool and
\* starts no raw accept: no step under a set signal takes the loop from its
\* select into l.tcp.Accept().
C15_NoTokenAfterSignal ==
    [][quit => ~(lpc = "select" /\ lpc' = "accept")]_vars

\* C15, the parts that hold: under a set signal the loop is never parked at
\* its select, the quit case of the select is ready whenever the loop is
\* there, and a raw accept started after the raw listener was closed fails
C15_QuitCaseReady ==
    /\ quit => lpc # "parked"
    /\ (quit /\ lpc = "select" /\ ~panicked) => ENABLED LoopSelectQuit
    /\ (lpc = "accept" /\ tcpClosed) => ~ENABLED LoopAcceptOk


\* ---- termination of the accept loop ----
\* C16: after Close the accept loop terminates holding no token: in a state
\* where no goroutine can take a step and the signal is set, the loop has
\* returned from listen().
C16_LoopTerminates ==
    (Quiescent /\ quit) => lpc = "done"

\* C16 up to the panic of C7: with nothing left to run, the signal set and
\* no panic, the loop has returned; the loop at its select under a set
\* signal can always return; and under FairSpec a Close call leads to the
\* loop having returned, or to the panic
C16_UnlessPanic ==
    /\ (Quiescent /\ quit /\ ~panicked) => lpc = "done"
    /\ (quit /\ ~panicked /\ lpc # "done") => ENABLED LoopStep
    /\ lpc = "done" => ~LoopHolds
C16_TerminatesUnlessPanic ==
    (\E c \in Closers : closer[c].pc # "idle") ~> (lpc = "done" \/ panicked)


\* ---- the raw connection of a task ----
\* the raw connection of task t was closed by the task
ConnClosed(t) == "close" \in SeqToSet(hs[t].ev)

\* the connection of task t went to an Accept call inside a success Outcome
ConnHandedOver(t) ==
    \E a \in Callers :
        /\ acc[a].from = t
        /\ \/ acc[a].pc = "woken" /\ acc[a].val = MaybeConnOk(t)
           \/ /\ acc[a].pc = "done"
              /\ \E r \in Returns : Success(r) /\ r.conn.ptr = t

\* C17: a task at its token release has either closed its raw connection
\* or handed it to an Accept call inside a success Outcome.
C17_ClosedOrOwned ==
    \A t \in Tasks :
        hs[t].pc = "release" => (ConnClosed(t) \/ ConnHandedOver(t))

\* C17, the part that holds: the only tasks that reach their release with
\* the connection neither closed nor handed over are those that returned on
\* <-l.quit at line 101 or line 145, and those whose acceptConn took its
\* quit case
C17_LeaksOnlyOnQuit ==
    \A t \in Tasks :
        (hs[t].pc = "release" /\ ~ConnClosed(t) /\ ~ConnHandedOver(t)) =>
            /\ quit
            /\ \/ AbortedAt1(t)
               \/ AbortedAt8(t)
               \/ /\ "clear" \in SeqToSet(hs[t].ev)
                  /\ Offers(t) = 1
                  /\ \A a \in Callers : acc[a].from # t


\* ---- the two aborts on the signal ----
\* the log of a task that returned at line 101, and at line 145
LogAbort1 == <<"abort1">>
LogAbort8 == <<"machine", "arm">> \o ActOneCalls \o <<"abort8">>

\* task t takes a step of its own
HsMoves(t) == hs'[t] # hs[t] /\ hs[t].pc \in {"precheck", "actOne", "release"}

\* C18: a task that runs its pre-check under a set signal does nothing but
\* return: no noise machine, no deadline, no read, no write, no close, no
\* offer, and its next step is the release of its token. A task that runs
\* the re-check after the write of Act Two under a set signal has done
\* exactly the calls up to that write, arms no second deadline, reads no
\* Act Three, offers nothing, and its next step is the release of its token.
\* Both aborts are taken whenever the signal is set at the check.
C18_AbortsDoNothing ==
    /\ [](\A t \in Tasks :
            /\ AbortedAt1(t) => (hs[t].ev = LogAbort1 /\ hs[t].pc = "release")
            /\ AbortedAt8(t) => (hs[t].ev = LogAbort8 /\ hs[t].pc = "release")
            /\ (hs[t].pc = "release" /\ ~panicked) => ENABLED HsRelease(t))
    /\ [][\A t \in Tasks :
            /\ (hs[t].pc = "precheck" /\ quit /\ HsMoves(t)) =>
                 hs'[t] = [pc |-> "release", ev |-> LogAbort1, err |-> NilErr]
            /\ (hs[t].pc = "actOne" /\ quit /\ HsMoves(t)) =>
                 \/ hs'[t].pc = "reject"
                 \/ hs'[t] = [pc |-> "release", ev |-> LogAbort8,
                              err |-> NilErr]
            /\ ((AbortedAt1(t) \/ AbortedAt8(t)) /\ HsMoves(t)) =>
                 /\ hs'[t] = [pc |-> "done", ev |-> <<>>, err |-> NilErr]
                 /\ \/ sema' = sema + 1
                    \/ lpc = "parked" /\ lpc' = "accept"]_vars

\* one task is at its release after the pre-check abort and another after
\* the abort at the re-check
C18_Witness ==
    \E t, u \in Tasks :
        /\ hs[t].pc = "release" /\ AbortedAt1(t)
        /\ hs[u].pc = "release" /\ AbortedAt8(u)


\* ---- the order of delivery ----
\* the Accept call that returned the Outcome of task t, or took it and has
\* not returned yet
ReturnedOutcomeOf(t) ==
    {i \in 1..Len(retLog) : acc[retLog[i].caller].from = t}
HoldsOutcomeOf(a, t) == acc[a].pc = "woken" /\ acc[a].from = t

\* C19 as the specification states it: when the Outcome of task t is offered
\* to a waiting Accept call before task u has reached its delivery step,
\* the Outcome of t is returned by Accept before the Outcome of u: the
\* Outcome of u is not returned while the call that took the Outcome of t
\* has still to return.
C19_ReturnedInOfferOrder ==
    \A a \in Callers : \A t \in Tasks : \A u \in acc[a].late :
        HoldsOutcomeOf(a, t) => ReturnedOutcomeOf(u) = {}

\* C19, amended: Accept calls take the Outcomes from l.conns in the order
\* they were offered. A call takes the value of the first parked sender,
\* if there is one, so the Outcome of a task that had not reached its
\* delivery step when another, still parked, sender offered is never taken
\* ahead of that sender's; parked senders keep their order of arrival; and
\* senders and Accept calls are never parked at the same time.
C19_TakenInOfferOrder ==
    /\ [](sendq = <<>> \/ recvq = <<>>)
    /\ [][/\ \A b \in Takers :
               /\ sendq # <<>> => acc'[b].from = Head(sendq).who
               /\ \A i \in 1..Len(sendq) :
                      acc'[b].from \notin sendq[i].late
          /\ \/ sendq' = sendq
             \/ sendq # <<>> /\ sendq' = Tail(sendq)
             \/ sendq' = <<>>
             \/ /\ Len(sendq') = Len(sendq) + 1
                /\ SubSeq(sendq', 1, Len(sendq)) = sendq
                /\ sendq'[Len(sendq')].who \notin Parked(sendq)
         ]_vars

\* the Outcome of the second connection was returned by Accept before the
\* Outcome of the first, both under an unset signal
C19_Witness ==
    /\ ~quit
    /\ \E i, j \in 1..Len(retLog) :
         /\ i < j
         /\ acc[retLog[i].caller].from = 2
         /\ acc[retLog[j].caller].from = 1


\* ---- read deadlines ----
\* the read deadline of a raw connection after the calls of log s: armed
\* when the last SetReadDeadline was given a time, not the zero time
DeadlineCalls(s) == {i \in 1..Len(s) : s[i] \in {"arm", "clear"}}
DeadlineArmed(s) ==
    /\ DeadlineCalls(s) # {}
    /\ s[CHOOSE i \in DeadlineCalls(s) : \A j \in DeadlineCalls(s) : j <= i]
         = "arm"

\* the reads of handshake messages
IsRead(e) == e \in {"readOne", "readThree"}

\* C20: in every task the call before the read of Act One and the call
\* before the read of Act Three is the arming of the read deadline, so each
\* read runs under an armed deadline, also a read that fails; a task that
\* got past the re-check after Act Two has armed exactly two deadlines, any
\* other task at most one; the deadline is cleared once, right after
\* RecvActThree and right before the success Outcome is offered, and never
\* on an error exit; every connection Accept returns as a success has its
\* deadline cleared.
C20_DeadlineSequencing ==
    /\ \A t \in Tasks :
         LET ev == hs[t].ev IN
         /\ \A i \in 1..Len(ev) :
              /\ IsRead(ev[i]) =>
                   (i > 1 /\ ev[i - 1] = "arm"
                      /\ DeadlineArmed(SubSeq(ev, 1, i - 1)))
              /\ ev[i] = "close" => DeadlineArmed(SubSeq(ev, 1, i - 1))
              /\ ev[i] = "clear" =>
                   /\ i > 1 /\ ev[i - 1] = "recvThree"
                   /\ i < Len(ev) => (i + 1 = Len(ev) /\ ev[i + 1] = "offer")
         /\ Count(ev, "arm") =
              (IF "writeTwo" \in SeqToSet(ev) /\ ~AbortedAt8(t) THEN 2
               ELSE IF "machine" \in SeqToSet(ev) THEN 1 ELSE 0)
         /\ Count(ev, "clear") <= 1
         /\ hs[t].pc \in {"actOne", "actThree"} =>
              (ev[Len(ev)] = "arm" /\ DeadlineArmed(ev))
         /\ hs[t].pc = "accept" =>
              (ev[Len(ev)] = "clear" /\ ~DeadlineArmed(ev))
         /\ Failed(t) => "clear" \notin SeqToSet(ev)
    /\ \A r \in Returns :
         Success(r) =>
             /\ Count(hs[r.conn.ptr].ev, "arm") = 2
             /\ Count(hs[r.conn.ptr].ev, "clear") = 1
             /\ ~DeadlineArmed(hs[r.conn.ptr].ev)

\* Accept has returned a connection as a success: its task armed two
\* deadlines and cleared the second; and another task is reading Act Three
\* under its second deadline
C20_Witness ==
    /\ \E r \in Returns :
         /\ Success(r)
         /\ Count(hs[r.conn.ptr].ev, "arm") = 2
         /\ ~DeadlineArmed(hs[r.conn.ptr].ev)
    /\ \E t \in Tasks : hs[t].pc = "actThree" /\ DeadlineArmed(hs[t].ev)
====
